---- MODULE Spec2Model ----
(***************************************************************************)
(* Model of clip_crafter's video_to_project.py: the pure segment builder   *)
(* build_segments and the per-file pipeline of main(); and of the scene    *)
(* operations of scenario_manager.py's ScenarioManager on a stored project.*)
(*                                                                         *)
(* Times are on an integer grid of 1/TicksPerSecond seconds: the code only *)
(* compares, subtracts and copies its float timestamps, so an integer grid *)
(* exercises every branch of it; only audioDuration is rounded to whole    *)
(* seconds.                                                                *)
(***************************************************************************)
EXTENDS Integers, Sequences, FiniteSets, TLC

\* ------------------------------------------------------------------ bounds
\* Largest timestamp / duration drawn as an input.
MaxTime == 4
\* Longest boundary list handed to build_segments in BuildSpec.
MaxLen == 3
\* Largest minimum segment duration drawn as an input.
MaxMin == 3
\* Grid points per second.
TicksPerSecond == 2

\* Timestamps a boundary list may hold: negative, zero, inside and beyond the end.
Times == (0 - 1)..(MaxTime + 1)
\* Durations the probe may report / build_segments may be given.
Durations == (0 - 1)..MaxTime
\* Values of --min-segment (argparse takes any float, src line 294-298).
MinDurations == (0 - 1)..MaxMin

RECURSIVE SeqsUpTo(_, _)
SeqsUpTo(S, n) ==
    IF n = 0 THEN {<<>>}
    ELSE LET shorter == SeqsUpTo(S, n - 1)
         IN  shorter \cup {Append(s, x) : s \in shorter, x \in S}

BoundaryLists == SeqsUpTo(Times, MaxLen)

\* ------------------------------------------------- build_segments (pure)

\* A filter that lets the boundaries at and beyond the end through.
InRangeNoUpper(change_times, total_duration) ==
    SelectSeq(change_times, LAMBDA t : 0 < t)

\* points = [t for t in change_times if 0.0 < t < total_duration]
InRange(change_times, total_duration) ==
    SelectSeq(change_times, LAMBDA t : 0 < t /\ t < total_duration)

RECURSIVE InsertSorted(_, _)
InsertSorted(s, x) ==
    IF s = <<>> THEN <<x>>
    ELSE IF x < Head(s) THEN <<x>> \o s
    ELSE <<Head(s)>> \o InsertSorted(Tail(s), x)

RECURSIVE SortLoop(_, _)
SortLoop(s, acc) ==
    IF s = <<>> THEN acc ELSE SortLoop(Tail(s), InsertSorted(acc, Head(s)))

\* A sort that forgets to sort.
sortedIdentity(s) == s

\* points = sorted(points)
sorted(s) == SortLoop(s, <<>>)

\* for t in points: if t - prev > 0.0: grid.append((prev, t)); prev = t
\* Returns <<prev, grid>> after the loop.
RECURSIVE GridLoop(_, _, _)
GridLoop(points, prev, grid) ==
    IF points = <<>> THEN <<prev, grid>>
    ELSE LET t == Head(points)
         IN  GridLoop(Tail(points), t,
                      IF t - prev > 0 THEN Append(grid, <<prev, t>>) ELSE grid)

\* A grid that forgets the closing interval (prev, total_duration).
GridNoTail(points, total_duration) ==
    GridLoop(points, 0, <<>>)[2]

\* The initial grid [0,t1], [t1,t2], ..., [tn,total].
Grid(points, total_duration) ==
    LET r == GridLoop(points, 0, <<>>)
    IN  IF total_duration - r[1] > 0
        THEN Append(r[2], <<r[1], total_duration>>)
        ELSE r[2]

\* A forward pass that goes on extending an interval up to twice min_duration.
RECURSIVE MergeLoopGreedy(_, _, _, _)
MergeLoopGreedy(rest, cur, merged, min_duration) ==
    IF rest = <<>> THEN <<merged, cur>>
    ELSE IF (cur[2] - cur[1]) < 2 * min_duration
         THEN MergeLoopGreedy(Tail(rest), <<cur[1], Head(rest)[2]>>, merged, min_duration)
         ELSE MergeLoopGreedy(Tail(rest), Head(rest), Append(merged, cur), min_duration)

\* A forward pass that still extends an interval of exactly min_duration.
RECURSIVE MergeLoopLE(_, _, _, _)
MergeLoopLE(rest, cur, merged, min_duration) ==
    IF rest = <<>> THEN <<merged, cur>>
    ELSE IF (cur[2] - cur[1]) <= min_duration
         THEN MergeLoopLE(Tail(rest), <<cur[1], Head(rest)[2]>>, merged, min_duration)
         ELSE MergeLoopLE(Tail(rest), Head(rest), Append(merged, cur), min_duration)

\* for start, end in grid[1:]: extend the current interval while it is short,
\* else emit it and restart from (start, end).  Returns <<merged, cur>>.
RECURSIVE MergeLoop(_, _, _, _)
MergeLoop(rest, cur, merged, min_duration) ==
    IF rest = <<>> THEN <<merged, cur>>
    ELSE IF (cur[2] - cur[1]) < min_duration
         THEN MergeLoop(Tail(rest), <<cur[1], Head(rest)[2]>>, merged, min_duration)
         ELSE MergeLoop(Tail(rest), Head(rest), Append(merged, cur), min_duration)

\* The forward pass, the final current interval appended.
ForwardMerge(grid, min_duration) ==
    LET r == MergeLoop(Tail(grid), Head(grid), <<>>, min_duration)
    IN  Append(r[1], r[2])

\* A fix-up that pops the short last interval without extending its neighbour.
FixUpDrop(merged, min_duration) ==
    LET n == Len(merged)
    IN  IF n >= 2 /\ (merged[n][2] - merged[n][1]) < min_duration
        THEN SubSeq(merged, 1, n - 1)
        ELSE merged

\* if len(merged) >= 2 and last is short: merged[-2] = (prev_start, last_end); pop
FixUp(merged, min_duration) ==
    LET n == Len(merged)
    IN  IF n >= 2 /\ (merged[n][2] - merged[n][1]) < min_duration
        THEN [i \in 1..(n - 1) |->
                 IF i = n - 1 THEN <<merged[n - 1][1], merged[n][2]>> ELSE merged[i]]
        ELSE merged

\* A final filter that keeps everything.
FilteredKeepAll(merged, min_duration) == merged

\* filtered = [(s, e) for (s, e) in merged if (e - s) >= min_duration]
Filtered(merged, min_duration) ==
    SelectSeq(merged, LAMBDA iv : (iv[2] - iv[1]) >= min_duration)

\* The grid build_segments starts from (<<>> on the early return).
InitialGrid(change_times, total_duration) ==
    IF total_duration <= 0 THEN <<>>
    ELSE Grid(sorted(InRange(change_times, total_duration)), total_duration)

\* merged, as it stands right after the forward pass (<<>> on an early return).
MergedAfterForward(change_times, total_duration, min_duration) ==
    LET grid == InitialGrid(change_times, total_duration)
    IN  IF grid = <<>> THEN <<>> ELSE ForwardMerge(grid, min_duration)

\* merged, as it stands right before the final filter (<<>> on an early return).
MergedBeforeFilter(change_times, total_duration, min_duration) ==
    IF total_duration <= 0 THEN <<>>
    ELSE LET points == sorted(InRange(change_times, total_duration))
             grid   == Grid(points, total_duration)
         IN  IF grid = <<>> THEN <<>>
             ELSE FixUp(ForwardMerge(grid, min_duration), min_duration)

build_segments(change_times, total_duration, min_duration) ==
    Filtered(MergedBeforeFilter(change_times, total_duration, min_duration),
             min_duration)

\* The internal cut points of a segment list: every end but the last.
CutPoints(segs) == [i \in 1..(Len(segs) - 1) |-> segs[i][2]]


\* ------------------------------------------------------------ the world

\* Most input files on one command line (argparse nargs="+": at least one).
MaxFiles == 2
\* Longest duration ffprobe reports for an input file of the pipeline.
MaxDuration == 3

\* Paths the command line may name; both have the stem "x".
Paths == {"a/x.mp4", "b/x.mp4"}

\* Path(p).stem
stem(p) == IF p \in {"a/x.mp4", "b/x.mp4"} THEN "x" ELSE "y"

InputLists == SeqsUpTo(Paths, MaxFiles) \ {<<>>}

\* Durations ffprobe may print for a readable file.
ProbeDurations == 0..MaxDuration

\* Values of --min-segment on the pipeline's command line.
MinSegments == 0..MaxMin

\* What is on disk under a path: nothing, a file ffprobe cannot read, or a
\* readable file of some duration.
FileKinds ==
    {[exists |-> FALSE, readable |-> FALSE, duration |-> 0],
     [exists |-> TRUE,  readable |-> FALSE, duration |-> 0]}
    \cup {[exists |-> TRUE, readable |-> TRUE, duration |-> d] : d \in ProbeDurations}

\* Outputs of ffprobe_scene_changes: sorted, deduplicated, t >= 0 (src line 104);
\* a timestamp may be 0 and may lie at or beyond the probed duration.
\* The model lets the detector report no, one or two boundaries.
DetectTimes == 0..MaxDuration
DetectLists ==
    {<<>>} \cup {<<a>> : a \in DetectTimes}
           \cup {p \in DetectTimes \X DetectTimes : p[1] < p[2]}

Range(s) == {s[i] : i \in 1..Len(s)}

VARIABLES
    tools,          \* external tools found in PATH
    disk,           \* what each named path holds
    input_paths,    \* args.videos
    min_segment,    \* args.min_segment
    pc,             \* position in main()
    exit_code,      \* process exit status, -1 while running
    stderr,         \* kind of the fatal message, "" if none
    file_idx,       \* 1-based position of input_path in input_paths
    duration,       \* local: probed duration
    change_times,   \* local: detected boundaries
    segments,       \* local: result of build_segments
    seg_idx,        \* local: enumerate(segments, start=1)
    all_clips,      \* List[(out_path, clip_duration)]
    project,        \* scenes of the assembled project
    assembled,      \* create_project_from_segments was called
    exported,       \* project file written
    file_state,     \* per input file: where its iteration ended
    stages,         \* stages the current file has entered, in order
    detect_failed,  \* ffprobe_scene_changes raised for the current file
    cut_calls,      \* cut_segment calls of the current file:
                    \* <<start, end, returned, ffmpeg ran, ffmpeg exited with 0>>
    clips_at_start, \* len(all_clips) when the current iteration began
    again_times,    \* BuildSpec: boundary list of the second call
    again_segments, \* BuildSpec: result of the second call
    clock,          \* ManagerSpec: the wall clock, in ticks
    stored,         \* ManagerSpec: the project's row exists in the table
    db,             \* ManagerSpec: the scenes of the stored project
    creator,        \* ManagerSpec: the caller of create_project
    client          \* ManagerSpec: each client's call of a scene operation

vars == <<tools, disk, input_paths, min_segment, pc, exit_code, stderr, file_idx,
          duration, change_times, segments, seg_idx, all_clips, project, assembled,
          exported, file_state, stages, detect_failed, cut_calls, clips_at_start,
          again_times, again_segments, clock, stored, db, creator, client>>

world  == <<tools, disk, input_paths, min_segment>>
second == <<again_times, again_segments>>
manager == <<clock, stored, db, creator, client>>
rest_of_main == <<world, second, pc, exit_code, stderr, file_idx, duration, change_times,
                  segments, seg_idx, all_clips, project, assembled, exported, file_state,
                  stages, detect_failed, cut_calls, clips_at_start>>

\* The callers of ScenarioManager's scene operations.
Clients == {"c1", "c2"}

\* No ScenarioManager call is in progress and nothing is stored.
ManagerAtRest ==
    /\ clock = 0
    /\ stored = FALSE
    /\ db = <<>>
    /\ creator = [pc |-> "done", todo |-> 0, scenes |-> <<>>]
    /\ client = [c \in Clients |->
                   [pc |-> "done", op |-> "none", scene_id |-> 0 - 1, index |-> 0 - 1,
                    project |-> <<>>, ret |-> "pending", new_id |-> 0 - 1]]

Running == 0 - 1

\* ------------------------------------------------------------ main()

Init ==
    /\ tools \in SUBSET {"ffmpeg", "ffprobe"}
    /\ input_paths \in InputLists
    /\ disk \in [Range(input_paths) -> FileKinds]
    /\ min_segment \in MinSegments
    /\ pc = "ensure_tools"
    /\ exit_code = Running
    /\ stderr = ""
    /\ file_idx = 0
    /\ duration = 0
    /\ change_times = <<>>
    /\ segments = <<>>
    /\ seg_idx = 0
    /\ all_clips = <<>>
    /\ project = <<>>
    /\ assembled = FALSE
    /\ exported = FALSE
    /\ file_state = [i \in 1..Len(input_paths) |-> "Pending"]
    /\ stages = <<>>
    /\ detect_failed = FALSE
    /\ cut_calls = <<>>
    /\ clips_at_start = 0
    /\ again_times = <<>>
    /\ again_segments = <<>>
    /\ ManagerAtRest

\* A tool check that finds every tool.
ensure_tool_always(tool_name) == TRUE

\* shutil.which(tool_name) is not None; otherwise RuntimeError.
ensure_tool_available(tool_name) == tool_name \in tools

\* An exit: the status and the kind of message it leaves.
Exit(code, msg) ==
    /\ pc' = "exited"
    /\ exit_code' = code
    /\ stderr' = msg

\* ensure_tool_available("ffmpeg"); ensure_tool_available("ffprobe").
\* The RuntimeError is not caught: the interpreter ends with status 1.
EnsureTools ==
    /\ pc = "ensure_tools"
    /\ IF ensure_tool_available("ffmpeg") /\ ensure_tool_available("ffprobe")
       THEN pc' = "check_paths" /\ UNCHANGED <<exit_code, stderr>>
       ELSE Exit(1, "tool_unavailable")
    /\ UNCHANGED <<world, second, manager, file_idx, duration, change_times, segments, seg_idx,
                   all_clips, project, assembled, exported, file_state, stages,
                   detect_failed, cut_calls, clips_at_start>>

\* for p in input_paths: if not p.exists(): sys.exit(1)
CheckPaths ==
    /\ pc = "check_paths"
    /\ IF \A i \in 1..Len(input_paths) : disk[input_paths[i]].exists
       THEN pc' = "mkdir" /\ UNCHANGED <<exit_code, stderr>>
       ELSE Exit(1, "file_not_found")
    /\ UNCHANGED <<world, second, manager, file_idx, duration, change_times, segments, seg_idx,
                   all_clips, project, assembled, exported, file_state, stages,
                   detect_failed, cut_calls, clips_at_start>>

\* media_dir.mkdir(parents=True, exist_ok=True); an OSError is not caught.
Mkdir ==
    /\ pc = "mkdir"
    /\ \E ok \in BOOLEAN :
          IF ok THEN pc' = "for" /\ UNCHANGED <<exit_code, stderr>>
          ELSE Exit(1, "mkdir_failed")
    /\ UNCHANGED <<world, second, manager, file_idx, duration, change_times, segments, seg_idx,
                   all_clips, project, assembled, exported, file_state, stages,
                   detect_failed, cut_calls, clips_at_start>>

\* for input_path in input_paths: bind the next path or leave the loop.  The
\* locals of the previous iteration are never read again (each is assigned
\* before its use), so the model unbinds them here.
ForNext ==
    /\ pc = "for"
    /\ IF file_idx < Len(input_paths)
       THEN /\ file_idx' = file_idx + 1
            /\ pc' = "probe"
       ELSE /\ pc' = "after_loop"
            /\ UNCHANGED file_idx
    /\ duration' = 0
    /\ change_times' = <<>>
    /\ segments' = <<>>
    /\ seg_idx' = 0
    /\ stages' = <<>>
    /\ detect_failed' = FALSE
    /\ cut_calls' = <<>>
    /\ clips_at_start' = Len(all_clips)
    /\ UNCHANGED <<world, second, manager, exit_code, stderr, all_clips, project, assembled,
                   exported, file_state>>

input_path == input_paths[file_idx]

\* A skip that leaves the file loop (break) where the code continues.
EndFileBreak(st) ==
    /\ file_state' = [file_state EXCEPT ![file_idx] = st]
    /\ pc' = IF st = "Done" THEN "for" ELSE "after_loop"

\* The iteration of the current file ends in state st: `continue`, or the end
\* of the loop body.
EndFile(st) ==
    /\ file_state' = [file_state EXCEPT ![file_idx] = st]
    /\ pc' = "for"

\* A probe that never fails.
ffprobe_duration_always(p) == TRUE

\* ffprobe_duration returns a float; RuntimeError on a non-zero exit or an
\* unparsable value.
ffprobe_duration_ok(p) == disk[p].readable

\* try: duration = ffprobe_duration(input_path) except: continue
Probe ==
    /\ pc = "probe"
    /\ stages' = Append(stages, "Probing")
    /\ IF ffprobe_duration_ok(input_path)
       THEN /\ duration' = disk[input_path].duration
            /\ pc' = "detect"
            /\ UNCHANGED file_state
       ELSE /\ EndFile("SkippedProbeFailed")
            /\ UNCHANGED duration
    /\ UNCHANGED <<world, second, manager, exit_code, stderr, file_idx, change_times, segments,
                   seg_idx, all_clips, project, assembled, exported, detect_failed,
                   cut_calls, clips_at_start>>

\* A detection failure that skips the file instead of degrading.
DetectFailsSkip ==
    /\ change_times' = <<>>
    /\ detect_failed' = TRUE
    /\ EndFile("SkippedNoSegments")

\* except Exception: change_times = []
DetectFails ==
    /\ change_times' = <<>>
    /\ detect_failed' = TRUE
    /\ pc' = "build"
    /\ UNCHANGED file_state

\* try: change_times = ffprobe_scene_changes(...) except: change_times = []
Detect ==
    /\ pc = "detect"
    /\ stages' = Append(stages, "Detecting")
    /\ \/ DetectFails
       \/ \E times \in DetectLists :
             /\ change_times' = times
             /\ detect_failed' = FALSE
             /\ pc' = "build"
             /\ UNCHANGED file_state
    /\ UNCHANGED <<world, second, manager, exit_code, stderr, file_idx, duration, segments,
                   seg_idx, all_clips, project, assembled, exported, cut_calls,
                   clips_at_start>>

\* segments = build_segments(...); if not segments: continue
Build ==
    /\ pc = "build"
    /\ stages' = Append(stages, "Building")
    /\ segments' = build_segments(change_times, duration, min_segment)
    /\ IF segments' = <<>>
       THEN /\ EndFile("SkippedNoSegments")
            /\ UNCHANGED seg_idx
       ELSE /\ seg_idx' = 1
            /\ pc' = "cut"
            /\ UNCHANGED file_state
    /\ UNCHANGED <<world, second, manager, exit_code, stderr, file_idx, duration, change_times,
                   all_clips, project, assembled, exported, detect_failed, cut_calls,
                   clips_at_start>>

\* out_path = media_dir / f"{stem}_scene_{seg_idx:03d}.mp4"
out_path(p, idx) == <<stem(p), idx>>

\* clip_duration = max(0.0, end - start)
clip_duration(start, end) == IF end - start > 0 THEN end - start ELSE 0

\* cut_segment runs ffmpeg unless duration <= 0 (if duration <= 0: return).
ffmpeg_runs(start, end) == clip_duration(start, end) > 0

\* A cut_segment that does not look at ffmpeg's exit status.
cut_segment_unchecked(start, end, tool_ok) == "returned"

\* cut_segment: returns without running ffmpeg when the duration is <= 0, else
\* runs it and raises on a non-zero exit.  tool_ok: ffmpeg would exit with 0.
cut_segment(start, end, tool_ok) ==
    IF clip_duration(start, end) <= 0 THEN "returned"
    ELSE IF tool_ok THEN "returned" ELSE "raised"

\* A failed cut that is tried again where the code continues.
NextSegmentRetry(failed) ==
    IF failed
    THEN pc' = "cut" /\ UNCHANGED <<seg_idx, file_state>>
    ELSE IF seg_idx = Len(segments)
         THEN EndFile("Done") /\ UNCHANGED seg_idx
         ELSE seg_idx' = seg_idx + 1 /\ pc' = "cut" /\ UNCHANGED file_state

\* A failed cut that leaves the segment loop (break) where the code continues.
NextSegmentBreak(failed) ==
    IF seg_idx = Len(segments) \/ failed
    THEN EndFile("Done") /\ UNCHANGED seg_idx
    ELSE seg_idx' = seg_idx + 1 /\ pc' = "cut" /\ UNCHANGED file_state

\* The segment loop goes on after a cut, failed (continue) or not: the next
\* segment, or the end of the loop body after the last one.
NextSegment(failed) ==
    IF seg_idx = Len(segments)
    THEN EndFile("Done") /\ UNCHANGED seg_idx
    ELSE seg_idx' = seg_idx + 1 /\ pc' = "cut" /\ UNCHANGED file_state

\* One iteration of: for seg_idx, (start, end) in enumerate(segments, start=1)
Cut ==
    /\ pc = "cut"
    /\ stages' = Append(stages, "Extracting")
    /\ \E tool_ok \in BOOLEAN :
          LET start == segments[seg_idx][1]
              end   == segments[seg_idx][2]
              res   == cut_segment(start, end, tool_ok)
              ran   == ffmpeg_runs(start, end)
          IN  /\ cut_calls' = Append(cut_calls,
                     <<start, end, res = "returned", ran, ran /\ tool_ok>>)
              /\ IF res = "returned"
                 THEN all_clips' = Append(all_clips,
                          <<out_path(input_path, seg_idx), clip_duration(start, end)>>)
                 ELSE UNCHANGED all_clips
              /\ NextSegment(res = "raised")
    /\ UNCHANGED <<world, second, manager, exit_code, stderr, file_idx, duration, change_times,
                   segments, project, assembled, exported, detect_failed,
                   clips_at_start>>

\* int(round(clip_duration)) of a duration given in ticks: Python's round goes
\* to the nearest whole number and, half way between two, to the even one.
round(ticks) ==
    LET q == ticks \div TicksPerSecond
        r == ticks % TicksPerSecond
    IN  IF 2 * r < TicksPerSecond THEN q
        ELSE IF 2 * r > TicksPerSecond THEN q + 1
        ELSE IF q % 2 = 0 THEN q ELSE q + 1

\* A project that lists the clips last to first.
create_project_reversed(media_files) ==
    [idx \in 1..Len(media_files) |->
        [title |-> idx,
         fileName |-> media_files[Len(media_files) + 1 - idx][1],
         audioDuration |-> round(media_files[Len(media_files) + 1 - idx][2])]]

\* One scene per clip, enumerate(media_files, start=1): title f"Scene {idx}",
\* media named after the clip file, audioDuration=int(round(clip_duration)).
create_project_from_segments(media_files) ==
    [idx \in 1..Len(media_files) |->
        [title |-> idx,
         fileName |-> media_files[idx][1],
         audioDuration |-> round(media_files[idx][2])]]

\* A zero-clip test that never fires.
NoClipsNever(clips) == FALSE

\* if not all_clips
NoClips(clips) == clips = <<>>

\* if not all_clips: sys.exit(2); project = create_project_from_segments(...)
AfterLoop ==
    /\ pc = "after_loop"
    /\ IF NoClips(all_clips)
       THEN /\ Exit(2, "no_clips")
            /\ UNCHANGED <<project, assembled>>
       ELSE /\ project' = create_project_from_segments(all_clips)
            /\ assembled' = TRUE
            /\ pc' = "export"
            /\ UNCHANGED <<exit_code, stderr>>
    /\ UNCHANGED <<world, second, manager, file_idx, duration, change_times, segments, seg_idx,
                   all_clips, exported, file_state, stages, detect_failed, cut_calls,
                   clips_at_start>>

\* try: export_project_to_file(...) except: sys.exit(3); main returns: status 0
Export ==
    /\ pc = "export"
    /\ \E ok \in BOOLEAN :
          IF ok THEN exported' = TRUE /\ Exit(0, "")
          ELSE Exit(3, "export_failed") /\ UNCHANGED exported
    /\ UNCHANGED <<world, second, manager, file_idx, duration, change_times, segments, seg_idx,
                   all_clips, project, assembled, file_state, stages, detect_failed,
                   cut_calls, clips_at_start>>

Next ==
    \/ EnsureTools
    \/ CheckPaths
    \/ Mkdir
    \/ ForNext
    \/ Probe
    \/ Detect
    \/ Build
    \/ Cut
    \/ AfterLoop
    \/ Export

Spec == Init /\ [][Next]_vars

\* A command line that names every file once (a path given twice only has
\* its iteration run twice).
InitFair ==
    /\ Init
    /\ \A a, b \in 1..Len(input_paths) : a # b => input_paths[a] # input_paths[b]

\* main() runs to its end: the interpreter takes the next step of the program
\* whenever there is one, and every call of an external tool returns.
FairSpec == InitFair /\ [][Next]_vars /\ WF_vars(Next)

\* ------------------------------------------- build_segments on its own

\* Everything of main() at rest; the three arguments of build_segments drawn.
InitBuild ==
    /\ tools = {}
    /\ input_paths = <<"a/x.mp4">>
    /\ disk = [p \in {"a/x.mp4"} |-> [exists |-> FALSE, readable |-> FALSE, duration |-> 0]]
    /\ min_segment \in MinDurations
    /\ pc = "input"
    /\ exit_code = Running
    /\ stderr = ""
    /\ file_idx = 0
    /\ duration \in Durations
    /\ change_times \in BoundaryLists
    /\ segments = <<>>
    /\ seg_idx = 0
    /\ all_clips = <<>>
    /\ project = <<>>
    /\ assembled = FALSE
    /\ exported = FALSE
    /\ file_state = <<"Pending">>
    /\ stages = <<>>
    /\ detect_failed = FALSE
    /\ cut_calls = <<>>
    /\ clips_at_start = 0
    /\ again_times = <<>>
    /\ again_segments = <<>>
    /\ ManagerAtRest

rest == <<world, manager, exit_code, stderr, file_idx, duration, change_times, seg_idx,
          all_clips, project, assembled, exported, file_state, stages,
          detect_failed, cut_calls, clips_at_start>>

\* build_segments(change_times, duration, min_segment)
CallBuild ==
    /\ pc = "input"
    /\ segments' = build_segments(change_times, duration, min_segment)
    /\ pc' = "built"
    /\ UNCHANGED <<rest, second>>

\* The second call, on the boundary list times.
CallAgain(times, label) ==
    /\ again_times' = times
    /\ again_segments' = build_segments(times, duration, min_segment)
    /\ pc' = label
    /\ UNCHANGED <<rest, segments>>

\* The result's own internal cut points fed back in.
FeedBack ==
    /\ pc = "built"
    /\ CallAgain(CutPoints(segments), "fed_back")

Outside(t) == ~(0 < t /\ t < duration)

InsertAt(s, k, x) == SubSeq(s, 1, k) \o <<x>> \o SubSeq(s, k + 1, Len(s))
RemoveAt(s, i) == SubSeq(s, 1, i - 1) \o SubSeq(s, i + 1, Len(s))
Swap(s, i, j) == [s EXCEPT ![i] = s[j], ![j] = s[i]]

\* A boundary not inside (0, duration) added in front of the list or after it.
AddOutside ==
    /\ pc = "built"
    /\ \E t \in {x \in Times : Outside(x)}, k \in {0, Len(change_times)} :
          CallAgain(InsertAt(change_times, k, t), "perturbed")

\* A boundary not inside (0, duration) removed from the list.
RemoveOutside ==
    /\ pc = "built"
    /\ \E i \in {j \in 1..Len(change_times) : Outside(change_times[j])} :
          CallAgain(RemoveAt(change_times, i), "perturbed")

\* A boundary of the list added once more, in front of the list or after it.
Duplicate ==
    /\ pc = "built"
    /\ \E i \in 1..Len(change_times), k \in {0, Len(change_times)} :
          CallAgain(InsertAt(change_times, k, change_times[i]), "perturbed")

\* Two boundaries of the list exchanged.
Permute ==
    /\ pc = "built"
    /\ \E i \in 1..Len(change_times), j \in 1..Len(change_times) :
          /\ i < j
          /\ change_times[i] # change_times[j]
          /\ CallAgain(Swap(change_times, i, j), "perturbed")

NextBuild ==
    \/ CallBuild
    \/ FeedBack
    \/ AddOutside
    \/ RemoveOutside
    \/ Duplicate
    \/ Permute

BuildSpec == InitBuild /\ [][NextBuild]_vars

\* ------------------------------------------- ScenarioManager (scenario_manager.py)

\* Most scenes a scenario text is parsed into.
MaxScenes == 2
\* Last tick of the clock.
MaxClock == 3
\* Clock ticks per millisecond: the clock is finer than the ids made from it.
TicksPerMs == 2

\* A scene id no scene has, and index=None.
NoScene == 0 - 1
NoIndex == 0 - 1

\* The title update_scene is called with, and the one add_scene_to_project is.
UpdatedTitle == <<"updated">>
AddedTitle == <<"added">>

Ops == {"update_scene", "toggle_scene_completion", "add_scene_to_project",
        "remove_scene_from_project", "move_scene_in_project"}

\* f"scene-{int(datetime.now().timestamp() * 1000)}": the clock cut down to
\* whole milliseconds.
generate_scene_id == clock \div TicksPerMs

\* Scene(id=..., title=...): isCompleted defaults to False.
Scene(id, title) == [id |-> id, title |-> title, isCompleted |-> FALSE]

SceneIds(scenes) == {scenes[i].id : i \in 1..Len(scenes)}

\* Project.get_scene: the position of the first scene with that id, 0 for None.
get_scene(scenes, scene_id) ==
    IF scene_id \in SceneIds(scenes)
    THEN CHOOSE i \in 1..Len(scenes) :
            /\ scenes[i].id = scene_id
            /\ \A j \in 1..(i - 1) : scenes[j].id # scene_id
    ELSE 0

\* Project.add_scene: append for index None, else list.insert(index, scene).
add_scene(scenes, scene, index) ==
    IF index = NoIndex THEN Append(scenes, scene) ELSE InsertAt(scenes, index, scene)

\* Project.remove_scene: self.scenes = [s for s in self.scenes if s.id != scene_id]
remove_scene(scenes, scene_id) == SelectSeq(scenes, LAMBDA sc : sc.id # scene_id)

\* Project.move_scene, past its two early returns: pop(current_index), then
\* insert(new_index, scene); new_index counts from 0.
move_scene(scenes, scene_id, new_index) ==
    LET at == get_scene(scenes, scene_id)
    IN  InsertAt(RemoveAt(scenes, at), new_index, scenes[at])

\* Time passes.
Tick ==
    /\ clock < MaxClock
    /\ clock' = clock + 1
    /\ UNCHANGED <<stored, db, creator, client, rest_of_main>>

\* create_project(title, scenario_text): the text holds the sentences of todo
\* scenes, none when it is empty.
CreateProject ==
    /\ creator.pc = "start"
    /\ \E n \in 0..MaxScenes :
          creator' = [pc |-> IF n = 0 THEN "save" ELSE "parse", todo |-> n, scenes |-> <<>>]
    /\ UNCHANGED <<clock, stored, db, client, rest_of_main>>

\* One turn of the loop of _parse_scenario_text: a scene with a fresh id and
\* the title f"Scene {len(scenes) + 1}".
ParseStep ==
    /\ creator.pc = "parse"
    /\ creator' = [pc |-> IF creator.todo = 1 THEN "save" ELSE "parse",
                   todo |-> creator.todo - 1,
                   scenes |-> Append(creator.scenes,
                                  Scene(generate_scene_id,
                                        <<"Scene", Len(creator.scenes) + 1>>))]
    /\ UNCHANGED <<clock, stored, db, client, rest_of_main>>

\* save_project: the upsert replaces the whole stored project; ok is False
\* when the call raised or returned no row.
save_project(scenes, ok) ==
    IF ok THEN db' = scenes /\ stored' = TRUE
    ELSE UNCHANGED <<db, stored>>

\* The new project is saved.
SaveCreated ==
    /\ creator.pc = "save"
    /\ \E ok \in BOOLEAN : save_project(creator.scenes, ok)
    /\ creator' = [creator EXCEPT !.pc = "done"]
    /\ UNCHANGED <<clock, client, rest_of_main>>

\* The call of client c returns r (and the new scene's id, for an added scene).
Return(c, scenes, r, id) ==
    client' = [client EXCEPT ![c].pc = "done", ![c].project = scenes,
                             ![c].ret = r, ![c].new_id = id]

\* A client calls a scene operation; its first step is load_project, which
\* gives None when the row is missing or the query raised, and the operation
\* then returns False (None for add_scene_to_project).
Load(c) ==
    /\ client[c].pc = "idle"
    /\ \E op \in Ops,
          scene_id \in SceneIds(db) \cup {NoScene},
          index \in (0..Len(db)) \cup {NoIndex},
          ok \in BOOLEAN :
          /\ op = "add_scene_to_project" => scene_id = NoScene
          /\ op \in {"update_scene", "toggle_scene_completion",
                      "remove_scene_from_project"} => index = NoIndex
          /\ op = "move_scene_in_project" => index \in 0..(Len(db) - 1)
          /\ IF stored /\ ok
             THEN client' = [client EXCEPT ![c] =
                      [pc |-> "loaded", op |-> op, scene_id |-> scene_id,
                       index |-> index, project |-> db, ret |-> "pending",
                       new_id |-> NoScene]]
             ELSE client' = [client EXCEPT ![c] =
                      [pc |-> "done", op |-> op, scene_id |-> scene_id,
                       index |-> index, project |-> <<>>,
                       ret |-> IF op = "add_scene_to_project" THEN "None" ELSE "False",
                       new_id |-> NoScene]]
    /\ UNCHANGED <<clock, stored, db, creator, rest_of_main>>

\* The step of an operation that follows its load_project.
Loaded(c, op) == client[c].pc = "loaded" /\ client[c].op = op

\* update_scene(project_id, scene_id, title=...)
update_scene(c) ==
    /\ Loaded(c, "update_scene")
    /\ LET at == get_scene(client[c].project, client[c].scene_id)
       IN  IF at = 0
           THEN Return(c, client[c].project, "False", NoScene) /\ UNCHANGED <<db, stored>>
           ELSE LET scenes == [client[c].project EXCEPT ![at].title = UpdatedTitle]
                IN  \E ok \in BOOLEAN :
                       /\ save_project(scenes, ok)
                       /\ Return(c, scenes, IF ok THEN "True" ELSE "False", NoScene)
    /\ UNCHANGED <<clock, creator, rest_of_main>>

\* toggle_scene_completion(project_id, scene_id)
toggle_scene_completion(c) ==
    /\ Loaded(c, "toggle_scene_completion")
    /\ LET at == get_scene(client[c].project, client[c].scene_id)
       IN  IF at = 0
           THEN Return(c, client[c].project, "False", NoScene) /\ UNCHANGED <<db, stored>>
           ELSE LET scenes == [client[c].project EXCEPT
                                  ![at].isCompleted = ~client[c].project[at].isCompleted]
                IN  \E ok \in BOOLEAN :
                       /\ save_project(scenes, ok)
                       /\ Return(c, scenes, IF ok THEN "True" ELSE "False", NoScene)
    /\ UNCHANGED <<clock, creator, rest_of_main>>

\* add_scene_to_project(project_id, title, index=...)
add_scene_to_project(c) ==
    /\ Loaded(c, "add_scene_to_project")
    /\ LET scene_id == generate_scene_id
           scenes == add_scene(client[c].project, Scene(scene_id, AddedTitle),
                               client[c].index)
       IN  \E ok \in BOOLEAN :
              /\ save_project(scenes, ok)
              /\ IF ok THEN Return(c, scenes, "id", scene_id)
                 ELSE Return(c, scenes, "None", NoScene)
    /\ UNCHANGED <<clock, creator, rest_of_main>>

\* remove_scene_from_project(project_id, scene_id)
remove_scene_from_project(c) ==
    /\ Loaded(c, "remove_scene_from_project")
    /\ LET scenes == remove_scene(client[c].project, client[c].scene_id)
       IN  IF Len(scenes) < Len(client[c].project)
           THEN \E ok \in BOOLEAN :
                   /\ save_project(scenes, ok)
                   /\ Return(c, scenes, IF ok THEN "True" ELSE "False", NoScene)
           ELSE Return(c, scenes, "False", NoScene) /\ UNCHANGED <<db, stored>>
    /\ UNCHANGED <<clock, creator, rest_of_main>>

\* move_scene_in_project(project_id, scene_id, new_index)
move_scene_in_project(c) ==
    /\ Loaded(c, "move_scene_in_project")
    /\ LET at == get_scene(client[c].project, client[c].scene_id)
       IN  IF at = 0 \/ at - 1 = client[c].index
           THEN Return(c, client[c].project, "False", NoScene) /\ UNCHANGED <<db, stored>>
           ELSE LET scenes == move_scene(client[c].project, client[c].scene_id,
                                         client[c].index)
                IN  \E ok \in BOOLEAN :
                       /\ save_project(scenes, ok)
                       /\ Return(c, scenes, IF ok THEN "True" ELSE "False", NoScene)
    /\ UNCHANGED <<clock, creator, rest_of_main>>

\* Everything of video_to_project.py at rest; one project about to be created,
\* every client about to call one operation on it.
InitManager ==
    /\ tools = {}
    /\ input_paths = <<"a/x.mp4">>
    /\ disk = [p \in {"a/x.mp4"} |-> [exists |-> FALSE, readable |-> FALSE, duration |-> 0]]
    /\ min_segment = 0
    /\ pc = "manager"
    /\ exit_code = Running
    /\ stderr = ""
    /\ file_idx = 0
    /\ duration = 0
    /\ change_times = <<>>
    /\ segments = <<>>
    /\ seg_idx = 0
    /\ all_clips = <<>>
    /\ project = <<>>
    /\ assembled = FALSE
    /\ exported = FALSE
    /\ file_state = <<"Pending">>
    /\ stages = <<>>
    /\ detect_failed = FALSE
    /\ cut_calls = <<>>
    /\ clips_at_start = 0
    /\ again_times = <<>>
    /\ again_segments = <<>>
    /\ clock = 0
    /\ stored = FALSE
    /\ db = <<>>
    /\ creator = [pc |-> "start", todo |-> 0, scenes |-> <<>>]
    /\ client = [c \in Clients |->
                   [pc |-> "idle", op |-> "none", scene_id |-> NoScene, index |-> NoIndex,
                    project |-> <<>>, ret |-> "pending", new_id |-> NoScene]]

NextManager ==
    \/ Tick
    \/ CreateProject
    \/ ParseStep
    \/ SaveCreated
    \/ \E c \in Clients : Load(c)
    \/ \E c \in Clients : update_scene(c)
    \/ \E c \in Clients : toggle_scene_completion(c)
    \/ \E c \in Clients : add_scene_to_project(c)
    \/ \E c \in Clients : remove_scene_from_project(c)
    \/ \E c \in Clients : move_scene_in_project(c)

ManagerSpec == InitManager /\ [][NextManager]_vars

\* ------------------------------------------------------------------ claims

\* The second and third stage of BuildSpec: build_segments has returned.
Built == pc \in {"built", "fed_back", "perturbed"}

\* segs is a partition of [0, total): starts at 0, ends at total, every
\* interval non-empty, each end the next start.
IsPartition(segs, total) ==
    /\ Len(segs) >= 1
    /\ segs[1][1] = 0
    /\ segs[Len(segs)][2] = total
    /\ \A i \in 1..Len(segs) : segs[i][1] < segs[i][2]
    /\ \A i \in 1..(Len(segs) - 1) : segs[i][2] = segs[i + 1][1]

\* The boundaries of a list that lie strictly inside (0, total).
InsideSet(times, total) == {t \in Range(times) : 0 < t /\ t < total}

\* C1: a non-empty result of build_segments is a partition of
\* [0, totalDuration): it starts at 0, ends at totalDuration, has no gap, no
\* overlap and no empty or reversed interval, for every boundary list and
\* every minDuration.
C1_Partition ==
    /\ (Built /\ segments # <<>>) => IsPartition(segments, duration)
    /\ (pc \in {"fed_back", "perturbed"} /\ again_segments # <<>>)
          => IsPartition(again_segments, duration)

\* C1 witness: four candidate intervals merged into a two-interval result.
C1_Witness ==
    /\ pc = "built"
    /\ Len(Grid(sorted(InRange(change_times, duration)), duration)) = 4
    /\ Len(segments) = 2

\* C2: with totalDuration > 0 and minDuration > 0 every returned interval
\* lasts at least minDuration, the result is empty exactly when
\* totalDuration < minDuration, and the final filter removes something only
\* from a single interval spanning a file shorter than minDuration.
C2_MinDuration ==
    (Built /\ duration > 0 /\ min_segment > 0) =>
        LET merged == MergedBeforeFilter(change_times, duration, min_segment)
        IN  /\ \A i \in 1..Len(segments) :
                  segments[i][2] - segments[i][1] >= min_segment
            /\ (segments = <<>>) <=> (duration < min_segment)
            /\ (segments # merged) => (duration < min_segment /\ Len(merged) = 1)

\* C2 witness: a short file with a boundary inside it, emptied by the filter.
C2_Witness ==
    /\ pc = "built"
    /\ duration > 0
    /\ min_segment > duration
    /\ InsideSet(change_times, duration) # {}
    /\ segments = <<>>

\* C3: feeding the internal cut points of a result back in as the boundary
\* list, with the same totalDuration and minDuration, returns the same result.
C3_Idempotent ==
    pc = "fed_back" => again_segments = segments

\* C3 witness: a merged result of two or more intervals, fed back through cut
\* points that differ from the sorted boundaries it came from.
C3_Witness ==
    /\ pc = "fed_back"
    /\ Len(segments) >= 2
    /\ again_times # sorted(InRange(change_times, duration))
    /\ again_segments # <<>>

\* C4: the result depends only on the set of boundaries strictly inside
\* (0, totalDuration): lists with the same such set (boundaries outside added
\* or removed, duplicates, another order) give the same result, and the result
\* is empty whenever totalDuration <= 0.
C4_OnlyInsideSet ==
    /\ (/\ pc \in {"fed_back", "perturbed"}
        /\ InsideSet(again_times, duration) = InsideSet(change_times, duration))
          => again_segments = segments
    /\ (Built /\ duration <= 0) => segments = <<>>
    /\ (pc \in {"fed_back", "perturbed"} /\ duration <= 0) => again_segments = <<>>

\* C4 witness: the inside boundaries in another order, a result of two or
\* more intervals.
C4_Witness ==
    /\ pc = "perturbed"
    /\ Len(again_times) = Len(change_times)
    /\ InRange(again_times, duration) # InRange(change_times, duration)
    /\ Len(segments) >= 2

\* The state right after the iteration of input file file_idx has ended.
AtFileEnd == pc = "for" /\ file_idx >= 1

\* The intervals handed to cut_segment for the current file, in call order.
Submitted == [i \in 1..Len(cut_calls) |-> <<cut_calls[i][1], cut_calls[i][2]>>]

\* The clips appended during the current iteration.
ThisFileClips == SubSeq(all_clips, clips_at_start + 1, Len(all_clips))

\* The clips the first k calls must have left: one per call that returned.
RECURSIVE ExpectedClips(_, _, _)
ExpectedClips(calls, p, k) ==
    IF k = 0 THEN <<>>
    ELSE ExpectedClips(calls, p, k - 1)
         \o (IF calls[k][3]
             THEN << <<out_path(p, k), calls[k][2] - calls[k][1]>> >>
             ELSE <<>>)

\* The file loop ran to its end (no exit before or inside it).
LoopFinished ==
    \/ pc = "export"
    \/ pc = "exited" /\ stderr \in {"", "no_clips", "export_failed"}

\* C5: within one file every segment is attempted whatever failed before it,
\* and exactly the segments whose extraction succeeded yield clips, in order;
\* a run with at least one clip is not the zero-clip failure.
C5_SegmentsIndependent ==
    /\ pc = "cut" => Len(cut_calls) = seg_idx - 1
    /\ (AtFileEnd /\ segments # <<>>) =>
          /\ file_state[file_idx] = "Done"
          /\ Submitted = segments
          /\ ThisFileClips = ExpectedClips(cut_calls, input_path, Len(cut_calls))
    /\ (pc = "exited" /\ all_clips # <<>>) => exit_code # 2

\* C5 witness: three segments, the second failed, the first and third clipped.
C5_Witness ==
    /\ AtFileEnd
    /\ Len(segments) = 3
    /\ Len(cut_calls) = 3
    /\ cut_calls[1][3] /\ ~cut_calls[2][3] /\ cut_calls[3][3]
    /\ Len(ThisFileClips) = 2

\* C6 as stated: after a detection failure, one segment [0, totalDuration) is
\* submitted if totalDuration >= minDuration, else the file is skipped for
\* having no segments; the run goes on.
C6_Original ==
    /\ detect_failed => exit_code = Running
    /\ (AtFileEnd /\ detect_failed) =>
          IF duration >= min_segment
          THEN file_state[file_idx] = "Done" /\ Submitted = << <<0, duration>> >>
          ELSE file_state[file_idx] = "SkippedNoSegments" /\ Submitted = <<>>

\* C6 amended: after a detection failure the file is processed as if no
\* boundary had been detected: one segment [0, totalDuration) is submitted if
\* totalDuration > 0 and totalDuration >= minDuration, else the file is
\* skipped for having no segments; the run goes on.
C6_DetectionDegrades ==
    /\ detect_failed => exit_code = Running
    /\ (detect_failed /\ pc \in {"cut", "for"})
          => segments = build_segments(<<>>, duration, min_segment)
    /\ (AtFileEnd /\ detect_failed) =>
          IF duration > 0 /\ duration >= min_segment
          THEN file_state[file_idx] = "Done" /\ Submitted = << <<0, duration>> >>
          ELSE file_state[file_idx] = "SkippedNoSegments" /\ Submitted = <<>>

\* C6 witness: detection failed, the whole file went out as one segment.
C6_Witness ==
    /\ AtFileEnd
    /\ detect_failed
    /\ duration >= min_segment
    /\ min_segment > 0
    /\ file_state[file_idx] = "Done"
    /\ Len(cut_calls) = 1

\* C7: a file whose duration probe fails is skipped alone: it enters no stage
\* after Probing, gets no cut_segment call, adds no clip, does not end the
\* run, and every file of the list is still reached.
C7_ProbeFailureSkipsFile ==
    /\ (file_idx >= 1 /\ pc \in {"detect", "build", "cut"})
          => disk[input_path].readable
    /\ (AtFileEnd /\ ~disk[input_path].readable) =>
          /\ file_state[file_idx] = "SkippedProbeFailed"
          /\ stages = <<"Probing">>
          /\ cut_calls = <<>>
          /\ Len(all_clips) = clips_at_start
          /\ exit_code = Running
    /\ \A i \in 1..Len(file_state) :
          (file_state[i] = "SkippedProbeFailed") => ~disk[input_paths[i]].readable
    /\ LoopFinished => \A i \in 1..Len(file_state) : file_state[i] # "Pending"

\* C7 witness: the first file's probe failed, the second file was cut.
C7_Witness ==
    /\ AtFileEnd
    /\ file_idx = 2
    /\ file_state[1] = "SkippedProbeFailed"
    /\ file_state[2] = "Done"
    /\ Len(all_clips) > clips_at_start

\* The file at position i can be read and is long enough for one segment.
Usable(i) ==
    /\ disk[input_paths[i]].readable
    /\ disk[input_paths[i]].duration >= min_segment

C9_FatalIffNoClips ==
    /\ pc \in {"for", "probe", "detect", "build", "cut", "after_loop"}
          => (exit_code = Running /\ ~assembled)
    /\ LoopFinished =>
          IF all_clips = <<>>
          THEN /\ exit_code = 2
               /\ ~assembled /\ ~exported /\ project = <<>>
          ELSE /\ exit_code # 2
               /\ assembled
               /\ Len(project) = Len(all_clips)
               /\ \A i \in 1..Len(project) : project[i].fileName = all_clips[i][1]
    /\ exit_code = 2 =>
          /\ all_clips = <<>>
          /\ \A i \in 1..Len(file_state) : file_state[i] # "Pending"

\* C9 witness: one file without segments, one whose every cut failed: exit 2.
C9_Witness ==
    /\ pc = "exited"
    /\ exit_code = 2
    /\ file_state = <<"SkippedNoSegments", "Done">>
    /\ project = <<>>

ToolsMissing == tools # {"ffmpeg", "ffprobe"}

Extracted(calls) == Cardinality({k \in 1..Len(calls) : calls[k][4] /\ calls[k][5]})

\* C11: a clip descriptor is recorded only for a segment whose ffmpeg run was
\* made and exited with status 0: every cut_segment call of a run invokes
\* ffmpeg (its early return for end - start <= 0 never fires on a segment of
\* build_segments), a call yields a clip exactly when that run exited with 0,
\* and the project has no scene beyond the clips.
C11_ClipOnlyOnSuccess ==
    /\ \A k \in 1..Len(cut_calls) :
          /\ cut_calls[k][4]
          /\ cut_calls[k][3] <=> cut_calls[k][5]
    /\ Len(ThisFileClips) = Extracted(cut_calls)
    /\ Len(project) <= Len(all_clips)

\* C11 witness: of two segments the first extraction failed, the second
\* succeeded, and the file left one clip.
C11_Witness ==
    /\ AtFileEnd
    /\ Len(cut_calls) = 2
    /\ ~cut_calls[1][5] /\ cut_calls[2][5]
    /\ Len(ThisFileClips) = 1

\* C12: the output paths of any two distinct segments of a run are distinct,
\* within one input file and across the input files, so no two clips (and no
\* two scenes) name the same file.  out_path is built from the file's stem and
\* the segment's index inside its own file only, so two inputs of the same
\* stem produce the same paths.
\* It is stated for input lists that name every file once.
C12_DistinctOutputPaths ==
    (\A a, b \in 1..Len(input_paths) : a # b => input_paths[a] # input_paths[b])
    => \A i, j \in 1..Len(all_clips) :
          i # j => all_clips[i][1] # all_clips[j][1]

\* |x|
Abs(x) == IF x < 0 THEN 0 - x ELSE x

\* a is the whole number of seconds nearest to a duration of d ticks, the even
\* one of the two when d lies half way between them.
NearestSecond(a, d) ==
    /\ 2 * Abs(a * TicksPerSecond - d) <= TicksPerSecond
    /\ 2 * Abs(a * TicksPerSecond - d) = TicksPerSecond => a % 2 = 0

\* The scenes of the assembled project are the clips, one for one and in order.
SceneForClip ==
    assembled =>
        /\ Len(project) = Len(all_clips)
        /\ \A i \in 1..Len(project) :
              /\ project[i].title = i
              /\ project[i].fileName = all_clips[i][1]
              /\ NearestSecond(project[i].audioDuration, all_clips[i][2])

\* The clip list only grows at its end, by the clip of the segment being cut,
\* while the file index never goes back and the segment index only goes back
\* at the head of the file loop.
ClipsInProductionOrder ==
    /\ all_clips' # all_clips =>
          /\ pc = "cut"
          /\ all_clips' = Append(all_clips,
                 <<out_path(input_path, seg_idx),
                   segments[seg_idx][2] - segments[seg_idx][1]>>)
    /\ file_idx' >= file_idx
    /\ (file_idx' = file_idx /\ pc # "for") => seg_idx' >= seg_idx
    /\ assembled => all_clips' = all_clips /\ project' = project

\* C13: the assembled project has exactly one scene per extracted clip, in the
\* order the clips were produced (file order, then segment order): scene i
\* names clip i's file and carries its duration rounded to whole seconds, the
\* titles are numbered 1..K, and no clip is merged, dropped, duplicated or
\* reordered.
C13_OneScenePerClip == [] SceneForClip /\ [][ClipsInProductionOrder]_vars

\* C13 witness: a project of two scenes assembled from the clips of two
\* files, one of them with a duration that was rounded up.
C13_Witness ==
    /\ assembled
    /\ Len(project) = 2
    /\ Len(input_paths) = 2 /\ \A i \in 1..2 : file_state[i] = "Done"
    /\ \E i \in 1..2 : project[i].audioDuration * TicksPerSecond > all_clips[i][2]

\* ---- the passes as the specification words them, on positions of the grid

\* The elements of a finite set of numbers, smallest first.
RECURSIVE Ascending(_)
Ascending(S) ==
    IF S = {} THEN <<>>
    ELSE LET m == CHOOSE x \in S : \A y \in S : x <= y
         IN  <<m>> \o Ascending(S \ {m})

\* The candidate intervals: consecutive points of 0, the boundaries strictly
\* inside (0, total) and total; equal points give no candidate.
Candidates(times, total) ==
    LET P == Ascending({0, total} \cup InsideSet(times, total))
    IN  [k \in 1..(Len(P) - 1) |-> <<P[k], P[k + 1]>>]

\* The candidate at which the interval begun at candidate i is emitted: the
\* first one that brings it to min or more, the last candidate if none does.
EmitAt(cands, i, min) ==
    LET reach == {j \in i..Len(cands) : cands[j][2] - cands[i][1] >= min}
    IN  IF reach = {} THEN Len(cands)
        ELSE CHOOSE j \in reach : \A k \in reach : j <= k

\* Forward merge from candidate i on.
RECURSIVE ForwardFrom(_, _, _)
ForwardFrom(cands, i, min) ==
    IF i > Len(cands) THEN <<>>
    ELSE LET j == EmitAt(cands, i, min)
         IN  <<(<<cands[i][1], cands[j][2]>>)>> \o ForwardFrom(cands, j + 1, min)

\* One backward merge of a too-short last interval into the one before it.
BackwardMerge(ivs, min) ==
    LET n == Len(ivs)
    IN  IF n >= 2 /\ ivs[n][2] - ivs[n][1] < min
        THEN SubSeq(ivs, 1, n - 2) \o <<(<<ivs[n - 1][1], ivs[n][2]>>)>>
        ELSE ivs

\* The passes in order: empty for total <= 0, else grid, forward merge,
\* backward merge, final filter.
Passes(times, total, min) ==
    IF total <= 0 THEN <<>>
    ELSE SelectSeq(BackwardMerge(ForwardFrom(Candidates(times, total), 1, min), min),
                   LAMBDA iv : iv[2] - iv[1] >= min)

\* build([2,4,9], 10, 3) = [(0,4), (4,10)], the seconds written in ticks.
WorkedExample ==
    build_segments(<<2 * TicksPerSecond, 4 * TicksPerSecond, 9 * TicksPerSecond>>,
                   10 * TicksPerSecond, 3 * TicksPerSecond)
        = << <<0, 4 * TicksPerSecond>>, <<4 * TicksPerSecond, 10 * TicksPerSecond>> >>

\* C14: for every boundary list, totalDuration and minDuration build_segments
\* returns exactly the result of the passes applied in order (grid from the
\* boundaries inside (0, totalDuration) without zero-width candidates, forward
\* merge absorbing while the current interval is shorter than minDuration and
\* always emitting the final one, one backward merge of a too-short last
\* interval, final filter), and build([2,4,9], 10, 3) = [(0,4), (4,10)] with
\* the times given in seconds.
C14_PassesInOrder ==
    /\ pc = "built" => segments = Passes(change_times, duration, min_segment)
    /\ WorkedExample

\* C14 witness: the forward pass absorbed a short first candidate and the
\* backward merge then took the short remainder: boundaries 1 and 3 of 4 with
\* a minimum of 2 leave the single interval (0, 4).
C14_Witness ==
    /\ Built
    /\ change_times = <<1, 3>> /\ duration = 4 /\ min_segment = 2
    /\ segments = << <<0, 4>> >>

\* The length of an interval.
Width(iv) == iv[2] - iv[1]

\* The candidate of the grid that ends where iv ends: the last one iv absorbed
\* (iv itself when it absorbed none).
LastAbsorbed(grid, iv) == grid[CHOOSE k \in 1..Len(grid) : grid[k][2] = iv[2]]

\* Every candidate of the grid is shorter than min, and there are several.
AllShort(grid, min) ==
    /\ Len(grid) >= 2
    /\ \A k \in 1..Len(grid) : Width(grid[k]) < min

\* C15 as stated: some boundary sequence made of consecutive candidates each
\* shorter than minDuration makes the forward pass emit a first interval of
\* duration >= 2 * minDuration; or, in its other wording, some interval the
\* forward pass emits before the last, having absorbed a candidate, is not
\* shorter than minDuration plus the length of the last candidate it absorbed.
C15_Original ==
    \E times \in BoundaryLists, total \in Durations, min \in MinDurations :
        LET grid == InitialGrid(times, total)
            fwd  == MergedAfterForward(times, total, min)
        IN  \/ /\ AllShort(grid, min)
               /\ Width(fwd[1]) >= 2 * min
            \/ \E i \in 1..(Len(fwd) - 1) :
                  /\ \A k \in 1..Len(grid) : grid[k] # fwd[i]
                  /\ Width(fwd[i]) >= min + Width(LastAbsorbed(grid, fwd[i]))

\* C15 (amended): for minDuration > 0 the forward pass stops extending an
\* interval as soon as it has reached minDuration, so every interval it emits
\* is shorter than minDuration plus the length of the last candidate it
\* absorbed, every interval before the last is at least minDuration long, and
\* when all candidates are shorter than minDuration every emitted interval is
\* shorter than 2 * minDuration.
C15_ForwardBound ==
    (pc = "built" /\ min_segment > 0) =>
        LET grid == InitialGrid(change_times, duration)
            fwd  == MergedAfterForward(change_times, duration, min_segment)
        IN  /\ \A i \in 1..Len(fwd) :
                  Width(fwd[i]) < min_segment + Width(LastAbsorbed(grid, fwd[i]))
            /\ \A i \in 1..(Len(fwd) - 1) : Width(fwd[i]) >= min_segment
            /\ AllShort(grid, min_segment)
                  => \A i \in 1..Len(fwd) : Width(fwd[i]) < 2 * min_segment

\* C15 witness: three or more consecutive candidates, all shorter than the
\* minimum, of which the forward pass made two intervals, the first by
\* absorbing.
C15_Witness ==
    /\ Built /\ min_segment > 0
    /\ LET grid == InitialGrid(change_times, duration)
           fwd  == MergedAfterForward(change_times, duration, min_segment)
       IN  /\ AllShort(grid, min_segment) /\ Len(grid) >= 3
           /\ Len(fwd) = 2
           /\ fwd[1] # grid[1]

\* The states a file's iteration ends in.
EndStates == {"Done", "SkippedNoSegments", "SkippedProbeFailed"}

\* The stage a file enters k-th.
StageAt(k) ==
    IF k = 1 THEN "Probing"
    ELSE IF k = 2 THEN "Detecting"
    ELSE IF k = 3 THEN "Building" ELSE "Extracting"

\* The tools are available and every input path exists.
InputsPresent ==
    /\ ~ToolsMissing
    /\ \A i \in 1..Len(input_paths) : disk[input_paths[i]].exists

\* C16 as stated: a finished run with the tools available and all input paths
\* present has taken every input file to one of its end states.
C16_Original ==
    (pc = "exited" /\ InputsPresent) =>
        \A i \in 1..Len(input_paths) : file_state[i] \in EndStates

\* Stages are entered in order and never again; a file ends in one state; the
\* files before the current one have ended, those after it have not begun.
StagesInOrder ==
    /\ \A k \in 1..Len(stages) : stages[k] = StageAt(k)
    /\ \A i \in 1..Len(input_paths) :
          /\ i < file_idx => file_state[i] \in EndStates
          /\ i > file_idx => file_state[i] = "Pending"
          /\ file_state[i] \in EndStates \cup {"Pending"}
    /\ (pc = "exited" /\ InputsPresent /\ stderr # "mkdir_failed") =>
          \A i \in 1..Len(input_paths) : file_state[i] \in EndStates
    /\ (AtFileEnd /\ file_state[file_idx] = "SkippedProbeFailed") =>
          stages = <<"Probing">>
    /\ (AtFileEnd /\ file_state[file_idx] = "SkippedNoSegments") =>
          stages = <<"Probing", "Detecting", "Building">>

\* The k-th extraction of a file is that of the k-th segment of its partition:
\* no segment twice, no interval that is not a segment, and all of them by
\* the time the file is Done.
EachSegmentOnce ==
    /\ Len(cut_calls) <= Len(segments)
    /\ \A k \in 1..Len(cut_calls) : Submitted[k] = segments[k]
    /\ Len(stages) = (IF Len(stages) > 3 THEN 3 + Len(cut_calls) ELSE Len(stages))
    /\ (AtFileEnd /\ file_state[file_idx] = "Done") =>
          /\ segments # <<>>
          /\ Len(cut_calls) = Len(segments)

\* No step stays where it is except to go on to the next segment; the file
\* index never goes back; the partition does not change while it is cut.
NothingRetried ==
    /\ pc' = pc => (pc = "cut" /\ seg_idx' = seg_idx + 1)
    /\ file_idx' >= file_idx
    /\ pc = "cut" => segments' = segments
    /\ pc' \in {"probe", "detect", "build"} => pc' # pc /\ Len(stages') <= 3

\* C16 (amended): every run over a finite input list terminates, and when the
\* tools are available, all input paths exist and the media directory can be
\* created, every input file passes through Probing, Detecting, Building and
\* Extracting in that order without re-entering a stage and ends in exactly
\* one of Done, SkippedNoSegments or SkippedProbeFailed: probe and detection
\* run at most once per file, extraction is attempted exactly once for every
\* segment of the file's partition and for nothing else, and nothing is
\* retried after a failure.
C16_TerminatesWithoutRetry ==
    /\ <>(pc = "exited")
    /\ [](StagesInOrder /\ EachSegmentOnce)
    /\ [][NothingRetried]_vars

\* C16 witness: a finished run of two files, the first skipped at its probe,
\* the second cut into two segments of which the first failed and was not
\* tried again.
C16_Witness ==
    /\ pc = "exited"
    /\ file_state = <<"SkippedProbeFailed", "Done">>
    /\ Len(all_clips) = 1
    /\ all_clips[1][1] = out_path(input_paths[2], 2)

\* segs cuts only at boundaries of times strictly inside (0, total), and so
\* has at most one interval more than there are such boundaries.
CutsOnlyAt(segs, times, total) ==
    /\ Range(CutPoints(segs)) \subseteq InsideSet(times, total)
    /\ Len(segs) <= Cardinality(InsideSet(times, total)) + 1
    /\ InsideSet(times, total) = {} => Len(segs) <= 1

\* C18: build_segments never invents a cut: every internal cut point of its
\* result is an element of the boundary list strictly inside
\* (0, totalDuration), so the result has at most one interval more than there
\* are such distinct boundaries, and at most one interval when there is none.
C18_NoInventedCut ==
    pc = "built" => CutsOnlyAt(segments, change_times, duration)

\* C18 witness: a list with boundaries inside and outside (0, totalDuration)
\* whose result cuts at one inside boundary and not at another.
C18_Witness ==
    /\ Built
    /\ Len(segments) = 2
    /\ Cardinality(InsideSet(change_times, duration)) = 2
    /\ \E t \in Range(change_times) : t <= 0 \/ t >= duration

\* The scenes of a list have ids that differ from one another.
UniqueIds(scenes) ==
    \A i, j \in 1..Len(scenes) : i # j => scenes[i].id # scenes[j].id

\* C17: scene ids produced by ScenarioManager are unique: the scenes that
\* _parse_scenario_text makes for one text, and every scene
\* add_scene_to_project adds, have ids distinct from the other scenes of the
\* project, in the project being created, in the stored one and in every
\* client's copy, so an id addresses one scene.
C17_UniqueSceneIds ==
    /\ UniqueIds(creator.scenes)
    /\ UniqueIds(db)
    /\ \A c \in Clients : UniqueIds(client[c].project)

\* The stored project has the scene of that id, completed.
StoredCompleted(scene_id) ==
    \E i \in 1..Len(db) : db[i].id = scene_id /\ db[i].isCompleted

\* The stored project has the scene of that id, under the updated title.
StoredUpdated(scene_id) ==
    \E i \in 1..Len(db) : db[i].id = scene_id /\ db[i].title = UpdatedTitle

\* C19: two scene operations of two clients on different scenes of one stored
\* project do not lose each other's effects: once toggle_scene_completion on
\* scene A and update_scene on scene B have both returned True, the stored
\* project has A completed and B under its new title, whatever the order of
\* their load_project and save_project steps.  Stated for projects whose
\* scene ids are distinct.
C19_NoLostUpdate ==
    \A a, b \in Clients :
        (/\ a # b
         /\ UniqueIds(creator.scenes)
         /\ client[a].pc = "done" /\ client[a].op = "toggle_scene_completion"
         /\ client[b].pc = "done" /\ client[b].op = "update_scene"
         /\ client[a].ret = "True" /\ client[b].ret = "True"
         /\ client[a].scene_id # client[b].scene_id)
        => (StoredCompleted(client[a].scene_id) /\ StoredUpdated(client[b].scene_id))

====
